---- MODULE Spec2Model ----
(***************************************************************************)
(* A model of minna-core's hybrid retrieval engine                         *)
(* (src/src/minna/core/vector_db.py, class VectorManager): the admission   *)
(* filter, the transactional write path add_documents, the keyword and     *)
(* vector read paths, and the connection discipline around them.           *)
(*                                                                         *)
(* Text is a sequence of one-character strings, so that strip(), len()     *)
(* and SQL LIKE are computed and not assumed.  Floating point values are   *)
(* fixed-point integers in units of 1/Scale.                               *)
(***************************************************************************)
EXTENDS Integers, Sequences, FiniteSets, TLC

\* ------------------------------------------------------------------ bounds

\* The store holds at most MaxRows rows: add_documents is only started with a
\* batch that fits.
MaxRows == 3

\* search / search_keyword are called with limit in 0..MaxLimit.
MaxLimit == 2

\* The model's clock advances in steps of TickMs milliseconds while a writer
\* waits for the write lock.
TickMs == 2500

\* ------------------------------------------------------------------ text

None == "None"

Rep(c, n) == [k \in 1..n |-> c]

IsSpace(c) == c \in {" ", "\t", "\n"}

\* str.strip(): leading and trailing whitespace removed.
RECURSIVE LStrip(_)
LStrip(s) == IF s # <<>> /\ IsSpace(Head(s)) THEN LStrip(Tail(s)) ELSE s

RECURSIVE RStrip(_)
RStrip(s) ==
  IF s # <<>> /\ IsSpace(s[Len(s)]) THEN RStrip(SubSeq(s, 1, Len(s) - 1)) ELSE s

strip(s) == RStrip(LStrip(s))

\* SQLite's LIKE folds the case of ASCII letters only.
Lower(c) ==
  CASE c = "K" -> "k"
    [] c = "H" -> "h"
    [] c = "N" -> "n"
    [] OTHER -> c

\* SQLite's LIKE: % matches any run of characters, _ any one character, every
\* other character itself up to ASCII case.
RECURSIVE Like(_, _)
Like(pat, s) ==
  IF pat = <<>> THEN s = <<>>
  ELSE IF Head(pat) = "%"
    THEN Like(Tail(pat), s) \/ (s # <<>> /\ Like(pat, Tail(s)))
    ELSE /\ s # <<>>
         /\ (Head(pat) = "_" \/ Lower(Head(pat)) = Lower(Head(s)))
         /\ Like(Tail(pat), Tail(s))

\* f"%{query}%"
like_query(query) == <<"%">> \o query \o <<"%">>

\* ------------------------------------------------------------- documents

\* Document.metadata is a dict; the model's dicts are functions on a set of keys.
EmptyDict == [k \in {} |-> None]

dict_get(m, k, default) == IF k \in DOMAIN m THEN m[k] ELSE default

\* json.dumps / json.loads of a metadata dict: the encoded text is the sequence
\* of its key/value pairs, in key order (the model's dicts have at most one key).
json_dumps(m) ==
  IF DOMAIN m = {} THEN <<"{", "}">>
  ELSE LET k == CHOOSE x \in DOMAIN m : TRUE IN <<"{", k, m[k], "}">>

json_loads(t) ==
  IF Len(t) = 2 THEN EmptyDict ELSE [k \in {t[2]} |-> t[3]]

\* "Keyword doc": 11 characters.
KeywordDoc == <<"K", "e", "y", "w", "o", "r", "d", " ", "d", "o", "c">>

\* "key tenten": exactly 10 characters, none of them whitespace at the ends.
KeyTen == <<"k", "e", "y", " ", "t", "e", "n", "t", "e", "n">>

\* "  Key" followed by whitespace: 12 characters, 3 after strip().
PaddedKey == <<" ", " ", "K", "e", "y">> \o Rep(" ", 6) \o <<"\n">>

\* "Keyword notes": 13 characters.
KeywordNotes == <<"K", "e", "y", "w", "o", "r", "d", " ", "N", "o", "t", "e", "s">>

\* "Hi"
Hi == <<"H", "i">>

Document(source, content, metadata) ==
  [source |-> source, content |-> content, metadata |-> metadata]

DocOk == Document("slack", KeywordDoc, [k \in {"channel_name"} |-> "general"])
DocDup == Document("github", KeywordDoc, EmptyDict)
DocTen == Document("slack", KeyTen, EmptyDict)
DocPadded == Document("slack", PaddedKey, [k \in {"channel_name"} |-> "general"])
DocUnknown == Document("Unknown", KeywordNotes, EmptyDict)
DocUnknownShort == Document("Unknown", Hi, EmptyDict)
DocNotes == Document("slack", KeywordNotes, EmptyDict)

\* The candidates a batch is made of.
Docs == {DocOk, DocDup, DocTen, DocPadded, DocUnknown, DocUnknownShort, DocNotes}

\* All sequences over S of length 0..n.
SeqsUpTo(S, n) == UNION {[1..k -> S] : k \in 0..n}

\* The queries of search and search_keyword: "key", "zzz" and "doc".
QueryKey == <<"k", "e", "y">>
QueryNone == <<"z", "z", "z">>
QueryEdge == <<"d", "o", "c">>

\* "k_y": a query holding a character that LIKE reads as a wildcard.
QueryWild == <<"k", "_", "y">>
Queries == {QueryKey, QueryNone, QueryEdge}

\* ------------------------------------------------------------- embedding

\* Floats are fixed-point integers: the value x is the integer x * Scale.
Scale == 100

\* self.target_dim (512 in the code; the model's vectors are shorter).
target_dim == 2

\* The largest integer r with r * r <= n.
RECURSIVE ISqrtIn(_, _, _)
ISqrtIn(n, lo, hi) ==
  IF lo >= hi THEN lo
  ELSE LET mid == (lo + hi + 1) \div 2
       IN IF mid * mid <= n THEN ISqrtIn(n, mid, hi) ELSE ISqrtIn(n, lo, mid - 1)

ISqrt(n) == ISqrtIn(n, 0, IF n < 40000 THEN n ELSE 40000)

RECURSIVE SumSq(_)
SumSq(v) == IF v = <<>> THEN 0 ELSE Head(v) * Head(v) + SumSq(Tail(v))

\* self.model.embed([text]): the injected embedding capability, here a stub
\* with one raw vector (longer than target_dim + 1) per text it knows.
model_embed(text) ==
  CASE text = KeywordDoc -> <<3, 4, 7, 1>>
    [] text = KeyTen -> <<4, 3, 1, 2>>
    [] text = KeywordNotes -> <<0, 5, 2, 2>>
    [] text = QueryKey -> <<3, 4, 2, 9>>
    [] text = QueryNone -> <<5, 0, 1, 1>>
    [] text = QueryEdge -> <<15, 4, 1, 1>>
    [] OTHER -> <<0, 0, 5, 5>>

\* Faulty variant of truncate: the last target_dim components.
TruncateTail(embedding) ==
  SubSeq(embedding, Len(embedding) - target_dim + 1, Len(embedding))

\* embedding[:self.target_dim]: the first target_dim components, or all of
\* them when there are fewer.
truncate(embedding) ==
  SubSeq(embedding, 1, IF Len(embedding) < target_dim THEN Len(embedding) ELSE target_dim)

\* Faulty variant of normalize: the vector is returned as it came.
NormalizeSkipped(truncated_embedding) ==
  [k \in 1..Len(truncated_embedding) |-> truncated_embedding[k] * Scale]

\* np.linalg.norm and the division, in fixed point: the vector divided by its
\* L2 norm, or the vector itself when the norm is zero.
normalize(truncated_embedding) ==
  LET norm == ISqrt(SumSq(truncated_embedding) * Scale * Scale)
  IN IF norm = 0
       THEN [k \in 1..Len(truncated_embedding) |-> truncated_embedding[k] * Scale]
       ELSE [k \in 1..Len(truncated_embedding) |->
               (truncated_embedding[k] * Scale * Scale) \div norm]

\* What embed_text does with the raw embedding of its text.
embed_vector(embedding) == normalize(truncate(embedding))

\* The vector returned by embed_text, in fixed point: the first target_dim raw
\* components, divided by their L2 norm unless the norm is zero.
embed_text(text) == embed_vector(model_embed(text))

\* sqlite-vec's distance of a MATCH query: the L2 distance, in fixed point.
vec_distance(u, v) == ISqrt(SumSq([k \in 1..Len(u) |-> u[k] - v[k]]))

\* The strong-match threshold 0.65, in fixed point.
Threshold == 65

\* ----------------------------------------------------------------- state

\* The processes that share the store file.  Spec runs the first alone;
\* SpecConc runs both.
Procs == {"p1", "p2"}
MainProcs == {"p1"}
NoProc == "none"

\* PRAGMA busy_timeout, in milliseconds.
busy_timeout == 5000

\* Python values handed back to a caller.
PyNone == [type |-> "NoneType"]
PyInt(n) == [type |-> "int", v |-> n]
PyList(l) == [type |-> "list", v |-> l]
PyDict(d) == [type |-> "dict", v |-> d]

\* SQL NULL in a column of the documents table.
SqlNull == <<"NULL">>

VARIABLES
  documents,        \* the committed documents table, in rowid order
  vec_documents,    \* the committed vec_documents table: a set of rows
  wlock,            \* the process whose connection holds the write lock
  pc,               \* where each process is
  batch,            \* add_documents: the argument `documents`
  i,                \* add_documents: index of the next candidate
  inserted_count,   \* add_documents: the local inserted_count
  tx,               \* the uncommitted rows of each process's connection
  pre,              \* the committed tables as add_documents found them
  waited,           \* milliseconds spent waiting for the write lock
  frame,            \* search / search_keyword: arguments, what each lookup gave
  open_conns,       \* connections a process opened and has not closed
  out,              \* what the current or last call printed
  ret,              \* what the last call handed to its caller
  embed,            \* embed_text: the raw embedding and the list returned
  slack,            \* SlackConnector.sync: its channels and its locals
  google,           \* GoogleWorkspaceConnector: its fields and an _api_get call
  importer,         \* import_conversations: the export and the documents
  worker            \* a sync worker: its connector's documents and its result

\* The store and its callers, and the components around the store.
StoreVars == <<documents, vec_documents, wlock, pc, batch, i, inserted_count, tx,
               pre, waited, frame, open_conns, out, ret>>
OutsideVars == <<embed, slack, google, importer, worker>>
vars == <<StoreVars, OutsideVars>>

\* A component that has not been called.
NoCall == [pc |-> "none"]

\* No component around the store has been called.
Idle ==
  /\ embed = NoCall
  /\ slack = NoCall
  /\ google = NoCall
  /\ importer = NoCall
  /\ worker = NoCall

NoTx == [docs |-> <<>>, vecs |-> {}]
\* The locals of a search or search_keyword call: the arguments, the rows of
\* the vector lookup and whether it raised, whether the keyword lookup was
\* called, whether it raised, and the rows it returned.
Frame(query, limit, vrows, vfailed, kcalled, kfailed, krows) ==
  [query |-> query, limit |-> limit, vector_results |-> vrows,
   vector_failed |-> vfailed, keyword_called |-> kcalled,
   keyword_failed |-> kfailed, keyword_results |-> krows]

NoFrame == Frame(<<>>, 0, <<>>, FALSE, FALSE, FALSE, <<>>)

\* The errors a call ends with: "storage" (a statement or the connection
\* failed), "locked" (the busy timeout ran out), "embedding" (the embedding
\* capability failed).
StorageErrors == {"storage", "locked"}

\* No call has returned yet.
NoRet == [op |-> "none", raised |-> "none", value |-> PyNone]

Returned(op, value) == [op |-> op, raised |-> "none", value |-> value]
Raised(op, e) == [op |-> op, raised |-> e, value |-> PyNone]

InitProcs ==
  /\ wlock = NoProc
  /\ pc = [p \in Procs |-> "new"]
  /\ batch = [p \in Procs |-> <<>>]
  /\ i = [p \in Procs |-> 0]
  /\ inserted_count = [p \in Procs |-> 0]
  /\ tx = [p \in Procs |-> NoTx]
  /\ pre = [p \in Procs |-> NoTx]
  /\ waited = [p \in Procs |-> 0]
  /\ frame = [p \in Procs |-> NoFrame]
  /\ open_conns = [p \in Procs |-> 0]
  /\ out = [p \in Procs |-> <<>>]
  /\ ret = [p \in Procs |-> NoRet]

\* A new store file: both tables empty.
Init ==
  /\ documents = <<>>
  /\ vec_documents = {}
  /\ InitProcs
  /\ Idle

\* ------------------------------------------------------------ connection

\* _get_connection: sqlite3.connect, then the two PRAGMAs and the extension
\* load.  "ok": a connection is returned to the caller.  "error": one of the
\* statements raised and the caller gets no connection.
ConnOutcomes == {"ok", "error"}

\* The connections a caller holds after a _get_connection that ended `outcome`.
ConnOpened(outcome) == IF outcome = "ok" THEN 1 ELSE 0

\* __init__ / setup_db: `with self._get_connection() as conn:
\* conn.executescript(schema_sql)`.  The connection's context manager commits
\* (or rolls back); it does not close the connection.
setup_db(p) ==
  /\ pc[p] = "new"
  /\ \E outcome \in ConnOutcomes :
       /\ open_conns' = [open_conns EXCEPT ![p] = @ + ConnOpened(outcome)]
       /\ IF outcome = "ok"
            THEN /\ pc' = [pc EXCEPT ![p] = "returned"]
                 /\ ret' = [ret EXCEPT ![p] = Returned("setup_db", PyNone)]
            ELSE /\ pc' = pc
                 /\ ret' = [ret EXCEPT ![p] = Raised("setup_db", "storage")]
  /\ UNCHANGED <<documents, vec_documents, wlock, batch, i, inserted_count, tx,
                 pre, waited, frame, out>>
  /\ UNCHANGED OutsideVars

\* ---------------------------------------------------------- add_documents

\* Faulty variant of Admit: the length test on the raw content, without strip().
AdmitUnstripped(doc) ==
  IF Len(doc.content) < 10 THEN "too_short"
  ELSE IF doc.source = "Unknown" THEN "unknown_source"
  ELSE "keep"

\* Faulty variant of Admit: the source test before the length test.
AdmitSourceFirst(doc) ==
  IF doc.source = "Unknown" THEN "unknown_source"
  ELSE IF Len(strip(doc.content)) < 10 THEN "too_short"
  ELSE "keep"

\* The quality filter at the head of the loop body: "keep", or the reason the
\* candidate is dropped for.
Admit(doc) ==
  IF Len(strip(doc.content)) < 10 THEN "too_short"
  ELSE IF doc.source = "Unknown" THEN "unknown_source"
  ELSE "keep"

\* The candidates of a batch that the filter keeps, in batch order.
RECURSIVE Kept(_)
Kept(docs) ==
  IF docs = <<>> THEN <<>>
  ELSE (IF Admit(Head(docs)) = "keep" THEN <<Head(docs)>> ELSE <<>>)
       \o Kept(Tail(docs))

Max(S) == CHOOSE x \in S : \A y \in S : y <= x

\* The rows a connection sees: the committed ones and its own uncommitted ones.
TxDocs(p) == documents \o tx[p].docs
TxVecs(p) == vec_documents \cup tx[p].vecs

\* The rowid SQLite gives a row inserted into `rows`: one more than the largest.
NextRowid(rows) == Max({rows[k].rowid : k \in 1..Len(rows)} \cup {0}) + 1

\* str(uuid.uuid4()): an id no visible row carries.
uuid4(rows) ==
  <<"uuid", Max({rows[k].id[2] : k \in 1..Len(rows)} \cup {0}) + 1>>

\* Faulty variant of InsertRows: the vector entry keyed by the row's position in the
\* batch's transaction, not by the rowid read back from the documents table.
InsertRowsBatchRowid(txn, doc, upto) ==
  LET seen == documents \o txn.docs
      row == [rowid |-> NextRowid(seen), id |-> uuid4(seen),
              source |-> doc.source, content |-> doc.content,
              metadata |-> json_dumps(doc.metadata)]
      vec == [rowid |-> Len(txn.docs) + 1, embedding |-> embed_text(doc.content)]
  IN [docs |-> Append(txn.docs, row),
      vecs |-> IF upto = "vec_documents" THEN txn.vecs \cup {vec} ELSE txn.vecs]

\* Steps 2 to 4 of the loop body, on the rows `txn` of the connection's open
\* transaction: the documents row, then (the row read back) the vec_documents
\* row under the same rowid.  `upto` is the last statement that runs:
\* "vec_documents" for the whole body, "documents" when the second INSERT raises.
InsertRows(txn, doc, upto) ==
  LET seen == documents \o txn.docs
      doc_id == uuid4(seen)
      rowid == NextRowid(seen)
      row == [rowid |-> rowid, id |-> doc_id, source |-> doc.source,
              content |-> doc.content, metadata |-> json_dumps(doc.metadata)]
      vec == [rowid |-> rowid, embedding |-> embed_text(doc.content)]
  IN [docs |-> Append(txn.docs, row),
      vecs |-> IF upto = "vec_documents" THEN txn.vecs \cup {vec} ELSE txn.vecs]

\* Rows of batches in flight in other processes (they count against MaxRows).
InFlight(p) ==
  LET S == {q \in Procs \ {p} : pc[q] = "add_loop"}
      RECURSIVE Sum(_)
      Sum(T) == IF T = {} THEN 0
                ELSE LET q == CHOOSE x \in T : TRUE
                     IN Len(batch[q]) + Sum(T \ {q})
  IN Sum(S)

Room(p) == MaxRows - Len(documents) - InFlight(p)

\* add_documents([]): `if not documents: return`, before any connection.
AddNothing(p) ==
  /\ pc[p] = "idle"
  /\ ret' = [ret EXCEPT ![p] = Returned("add_documents", PyNone)]
  /\ pc' = [pc EXCEPT ![p] = "returned"]
  /\ UNCHANGED <<documents, vec_documents, wlock, batch, i, inserted_count, tx,
                 pre, waited, frame, open_conns, out>>
  /\ UNCHANGED OutsideVars

\* add_documents(documents) up to the loop: the connection is acquired outside
\* the try block, so a failure of _get_connection is raised as it is.
AddBegin(p, Cands) ==
  /\ pc[p] = "idle"
  /\ \E docs \in SeqsUpTo(Cands, Room(p)), outcome \in ConnOutcomes :
       /\ docs # <<>>
       /\ batch' = [batch EXCEPT ![p] = docs]
       /\ pre' = [pre EXCEPT ![p] = [docs |-> documents, vecs |-> vec_documents]]
       /\ IF outcome = "ok"
            THEN /\ pc' = [pc EXCEPT ![p] = "add_loop"]
                 /\ i' = [i EXCEPT ![p] = 1]
                 /\ inserted_count' = [inserted_count EXCEPT ![p] = 0]
                 /\ open_conns' = [open_conns EXCEPT ![p] = @ + 1]
                 /\ UNCHANGED ret
            ELSE /\ pc' = [pc EXCEPT ![p] = "returned"]
                 /\ ret' = [ret EXCEPT ![p] = Raised("add_documents", "storage")]
                 /\ UNCHANGED <<i, inserted_count, open_conns>>
  /\ UNCHANGED <<documents, vec_documents, wlock, tx, waited, frame, out>>
  /\ UNCHANGED OutsideVars

InLoop(p) == pc[p] = "add_loop" /\ i[p] <= Len(batch[p])

\* Faulty variant of AddDrop: `break` in the place of `continue`.
AddDropBreaks(p) ==
  /\ InLoop(p)
  /\ Admit(batch[p][i[p]]) # "keep"
  /\ out' = [out EXCEPT ![p] = Append(@, <<"dropped", Admit(batch[p][i[p]])>>)]
  /\ i' = [i EXCEPT ![p] = Len(batch[p]) + 1]
  /\ UNCHANGED <<documents, vec_documents, wlock, pc, batch, inserted_count, tx,
                 pre, waited, frame, open_conns, ret>>
  /\ UNCHANGED OutsideVars

\* A candidate the filter drops: the reason is printed and the loop continues.
AddDrop(p) ==
  /\ InLoop(p)
  /\ Admit(batch[p][i[p]]) # "keep"
  /\ out' = [out EXCEPT ![p] = Append(@, <<"dropped", Admit(batch[p][i[p]])>>)]
  /\ i' = [i EXCEPT ![p] = @ + 1]
  /\ UNCHANGED <<documents, vec_documents, wlock, pc, batch, inserted_count, tx,
                 pre, waited, frame, open_conns, ret>>
  /\ UNCHANGED OutsideVars

\* Faulty variant of AddInsert: a connection in autocommit mode, every INSERT
\* committed as it runs.
AddInsertAutocommit(p) ==
  /\ InLoop(p)
  /\ Admit(batch[p][i[p]]) = "keep"
  /\ wlock \in {NoProc, p}
  /\ documents' = documents \o InsertRows(NoTx, batch[p][i[p]], "vec_documents").docs
  /\ vec_documents' =
       vec_documents \cup InsertRows(NoTx, batch[p][i[p]], "vec_documents").vecs
  /\ inserted_count' = [inserted_count EXCEPT ![p] = @ + 1]
  /\ i' = [i EXCEPT ![p] = @ + 1]
  /\ waited' = [waited EXCEPT ![p] = 0]
  /\ UNCHANGED <<wlock, tx, pc, batch, pre, frame, open_conns, out, ret>>
  /\ UNCHANGED OutsideVars

\* A kept candidate whose statements all succeed.  The first INSERT of the call
\* takes the write lock, which the connection holds until commit or rollback.
AddInsert(p) ==
  /\ InLoop(p)
  /\ Admit(batch[p][i[p]]) = "keep"
  /\ wlock \in {NoProc, p}
  /\ wlock' = p
  /\ tx' = [tx EXCEPT ![p] = InsertRows(@, batch[p][i[p]], "vec_documents")]
  /\ inserted_count' = [inserted_count EXCEPT ![p] = @ + 1]
  /\ i' = [i EXCEPT ![p] = @ + 1]
  /\ waited' = [waited EXCEPT ![p] = 0]
  /\ UNCHANGED <<documents, vec_documents, pc, batch, pre, frame, open_conns, out,
                 ret>>
  /\ UNCHANGED OutsideVars

\* Faulty variant of ExceptHandler: conn.commit() in the place of conn.rollback().
ExceptHandlerCommits(p, txn, e) ==
  /\ documents' = documents \o txn.docs
  /\ vec_documents' = vec_documents \cup txn.vecs
  /\ tx' = [tx EXCEPT ![p] = NoTx]
  /\ wlock' = IF wlock = p THEN NoProc ELSE wlock
  /\ out' = [out EXCEPT ![p] = Append(@, <<"error", e>>)]
  /\ ret' = [ret EXCEPT ![p] = Raised("add_documents", e)]
  /\ open_conns' = [open_conns EXCEPT ![p] = @ - 1]
  /\ pc' = [pc EXCEPT ![p] = "returned"]
  /\ UNCHANGED <<batch, i, inserted_count, pre, waited, frame>>
  /\ UNCHANGED OutsideVars

\* except Exception as e: conn.rollback(); print; raise e -- finally:
\* conn.close().  `txn` is the connection's open transaction when e was raised.
ExceptHandler(p, txn, e) ==
  /\ UNCHANGED <<documents, vec_documents>>
  /\ tx' = [tx EXCEPT ![p] = NoTx]
  /\ wlock' = IF wlock = p THEN NoProc ELSE wlock
  /\ out' = [out EXCEPT ![p] = Append(@, <<"error", e>>)]
  /\ ret' = [ret EXCEPT ![p] = Raised("add_documents", e)]
  /\ open_conns' = [open_conns EXCEPT ![p] = @ - 1]
  /\ pc' = [pc EXCEPT ![p] = "returned"]
  /\ UNCHANGED <<batch, i, inserted_count, pre, waited, frame>>
  /\ UNCHANGED OutsideVars

\* Faulty variant of AddEmbedFail: the rows inserted before the failing
\* candidate are committed.
AddEmbedFailCommits(p) ==
  /\ InLoop(p)
  /\ Admit(batch[p][i[p]]) = "keep"
  /\ waited[p] = 0
  /\ ExceptHandlerCommits(p, tx[p], "embedding")

\* embed_text raises for a kept candidate (the embedding capability fails),
\* before the candidate's first INSERT.
AddEmbedFail(p) ==
  /\ InLoop(p)
  /\ Admit(batch[p][i[p]]) = "keep"
  /\ waited[p] = 0
  /\ ExceptHandler(p, tx[p], "embedding")

\* A statement raises a storage error: the INSERT into documents or the INSERT
\* into vec_documents of a kept candidate, or the final commit.
AddStorageFail(p) ==
  /\ pc[p] = "add_loop"
  /\ wlock \in {NoProc, p}
  /\ \/ /\ InLoop(p)
        /\ Admit(batch[p][i[p]]) = "keep"
        /\ \E at \in {"nothing", "documents"} :
             ExceptHandler(p, IF at = "nothing" THEN tx[p]
                              ELSE InsertRows(tx[p], batch[p][i[p]], at),
                           "storage")
     \/ /\ i[p] > Len(batch[p])
        /\ ExceptHandler(p, tx[p], "storage")

\* Faulty variant of AddCommit: the batch written over the rows that were
\* there (INSERT OR REPLACE from the first rowid on).
AddCommitReplaces(p) ==
  /\ pc[p] = "add_loop"
  /\ i[p] > Len(batch[p])
  /\ documents' =
       IF tx[p].docs = <<>> THEN documents
       ELSE [k \in 1..Len(tx[p].docs) |->
               [tx[p].docs[k] EXCEPT !.rowid = k, !.id = <<"uuid", k>>]]
  /\ vec_documents' =
       IF tx[p].docs = <<>> THEN vec_documents
       ELSE {[rowid |-> k, embedding |-> embed_text(tx[p].docs[k].content)] :
             k \in 1..Len(tx[p].docs)}
  /\ tx' = [tx EXCEPT ![p] = NoTx]
  /\ wlock' = IF wlock = p THEN NoProc ELSE wlock
  /\ out' = [out EXCEPT ![p] = Append(@, <<"added", inserted_count[p]>>)]
  /\ ret' = [ret EXCEPT ![p] = Returned("add_documents", PyNone)]
  /\ open_conns' = [open_conns EXCEPT ![p] = @ - 1]
  /\ pc' = [pc EXCEPT ![p] = "returned"]
  /\ UNCHANGED <<batch, i, inserted_count, pre, waited, frame>>
  /\ UNCHANGED OutsideVars

\* After the loop: conn.commit(), the count printed, finally conn.close().
\* The function ends without a return statement.
AddCommit(p) ==
  /\ pc[p] = "add_loop"
  /\ i[p] > Len(batch[p])
  /\ documents' = documents \o tx[p].docs
  /\ vec_documents' = vec_documents \cup tx[p].vecs
  /\ tx' = [tx EXCEPT ![p] = NoTx]
  /\ wlock' = IF wlock = p THEN NoProc ELSE wlock
  /\ out' = [out EXCEPT ![p] = Append(@, <<"added", inserted_count[p]>>)]
  /\ ret' = [ret EXCEPT ![p] = Returned("add_documents", PyNone)]
  /\ open_conns' = [open_conns EXCEPT ![p] = @ - 1]
  /\ pc' = [pc EXCEPT ![p] = "returned"]
  /\ UNCHANGED <<batch, i, inserted_count, pre, waited, frame>>
  /\ UNCHANGED OutsideVars

\* Faulty variant of LockWait: a busy handler that never gives up.
LockWaitForever(p) ==
  /\ InLoop(p)
  /\ Admit(batch[p][i[p]]) = "keep"
  /\ wlock \notin {NoProc, p}
  /\ waited' = [waited EXCEPT ![p] = @ + TickMs]
  /\ UNCHANGED <<documents, vec_documents, wlock, pc, batch, i, inserted_count,
                 tx, pre, frame, open_conns, out, ret>>
  /\ UNCHANGED OutsideVars

\* The write lock is held by another connection: the busy handler sleeps.
LockWait(p) ==
  /\ InLoop(p)
  /\ Admit(batch[p][i[p]]) = "keep"
  /\ wlock \notin {NoProc, p}
  /\ waited[p] < busy_timeout
  /\ waited' = [waited EXCEPT ![p] = @ + TickMs]
  /\ UNCHANGED <<documents, vec_documents, wlock, pc, batch, i, inserted_count,
                 tx, pre, frame, open_conns, out, ret>>
  /\ UNCHANGED OutsideVars

\* The busy timeout has run out with the lock still held: the INSERT raises
\* "database is locked".
LockTimeout(p) ==
  /\ InLoop(p)
  /\ Admit(batch[p][i[p]]) = "keep"
  /\ wlock \notin {NoProc, p}
  /\ waited[p] >= busy_timeout
  /\ ExceptHandler(p, tx[p], "locked")

\* ---------------------------------------------------------------- search

\* Faulty variant of Take: no cut.
TakeAll(s, n) == s

\* LIMIT n / [:n] for n >= 0: the first n elements.
Take(s, n) == SubSeq(s, 1, IF n < Len(s) THEN n ELSE Len(s))

\* Faulty variant of ReadFilter: length(content) >= 10.
ReadFilterAtLeastTen(d) ==
  /\ d.content # SqlNull
  /\ Len(d.content) >= 10
  /\ d.source # "Unknown"

\* The WHERE clause shared by both lookups: content IS NOT NULL (a NULL never
\* satisfies length() > 10 or LIKE), length(content) > 10, source != 'Unknown'.
ReadFilter(d) ==
  /\ d.content # SqlNull
  /\ Len(d.content) > 10
  /\ d.source # "Unknown"

\* json.loads(row[2]) if row[2] else {}
LoadMetadata(m) == IF m = SqlNull \/ m = <<>> THEN EmptyDict ELSE json_loads(m)

\* The SELECT of search_keyword and the formatting of its rows.
KeywordRows(query, limit) ==
  LET hit(d) == /\ d.content # SqlNull
                /\ Like(like_query(query), d.content)
                /\ ReadFilter(d)
      results == Take(SelectSeq(documents, hit), limit)
  IN [k \in 1..Len(results) |->
        [source |-> results[k].source, content |-> results[k].content,
         metadata |-> LoadMetadata(results[k].metadata)]]

\* ORDER BY distance leaves the order of rows at one distance to the engine:
\* the model lets it be by ascending or by descending rowid.
TieOrders == {"asc", "desc"}

\* S in ascending order of distance, rows at one distance in the order `tie`.
RECURSIVE ByDistance(_, _)
ByDistance(S, tie) ==
  IF S = {} THEN <<>>
  ELSE LET m == CHOOSE x \in S : \A y \in S :
                  \/ x.distance < y.distance
                  \/ /\ x.distance = y.distance
                     /\ IF tie = "asc" THEN x.rowid <= y.rowid
                        ELSE x.rowid >= y.rowid
       IN <<m>> \o ByDistance(S \ {m}, tie)

\* The CTE `matches`: the `limit` nearest rows of vec_documents.
Matches(query_vector, limit, tie) ==
  Take(ByDistance({[rowid |-> v.rowid,
                    distance |-> vec_distance(v.embedding, query_vector)] :
                   v \in vec_documents}, tie),
       limit)

\* s without the elements that occur earlier in it under key(_).
RECURSIVE DedupBy(_, _, _)
DedupBy(s, seen, field) ==
  IF s = <<>> THEN <<>>
  ELSE LET key == IF field = "content" THEN Head(s).content ELSE Head(s)
       IN IF key \in seen THEN DedupBy(Tail(s), seen, field)
          ELSE <<Head(s)>> \o DedupBy(Tail(s), seen \cup {key}, field)

\* The SELECT DISTINCT of search: matches joined to documents on rowid, the
\* read filter applied, in order of distance.
RECURSIVE Joined(_)
Joined(ms) ==
  IF ms = <<>> THEN <<>>
  ELSE LET m == Head(ms)
           hit(d) == d.rowid = m.rowid /\ ReadFilter(d)
           ds == SelectSeq(documents, hit)
       IN [k \in 1..Len(ds) |->
             [source |-> ds[k].source, content |-> ds[k].content,
              metadata |-> ds[k].metadata, distance |-> m.distance]]
          \o Joined(Tail(ms))

\* Faulty variant of VectorRows: no seen_content test, every row of the SELECT
\* kept.
VectorRowsNoDedup(query, limit, tie) ==
  LET results ==
        DedupBy(Joined(Matches(embed_text(query), limit, tie)), {}, "row")
  IN Take([k \in 1..Len(results) |->
             [source |-> results[k].source, content |-> results[k].content,
              metadata |-> LoadMetadata(results[k].metadata),
              distance |-> results[k].distance]],
          limit)

\* vector_results of search: the rows of the SELECT, the first row of each
\* content kept, cut to limit.
VectorRows(query, limit, tie) ==
  LET results ==
        DedupBy(Joined(Matches(embed_text(query), limit, tie)), {}, "row")
      kept == DedupBy(results, {}, "content")
  IN Take([k \in 1..Len(kept) |->
             [source |-> kept[k].source, content |-> kept[k].content,
              metadata |-> LoadMetadata(kept[k].metadata),
              distance |-> kept[k].distance]],
          limit)

\* Faulty variant of HybridStage: a top distance equal to the threshold taken
\* for a strong match.
HybridStageInclusive(vector_results) ==
  IF vector_results = <<>> THEN "no_results"
  ELSE IF vector_results[1].distance <= Threshold THEN "strong_match"
  ELSE "fallback"

\* Faulty variant of HybridStage: the keyword lookup also tried when the vector lookup
\* gave no rows.
HybridStageKeywordOnEmpty(vector_results) ==
  IF vector_results # <<>> /\ vector_results[1].distance < Threshold
    THEN "strong_match"
  ELSE "fallback"

\* Step 3 of search up to the keyword lookup: no vector rows end the call with
\* no_results, a top distance below the threshold with strong_match; otherwise
\* the keyword lookup decides.
HybridStage(vector_results) ==
  IF vector_results = <<>> THEN "no_results"
  ELSE IF vector_results[1].distance < Threshold THEN "strong_match"
  ELSE "fallback"

SearchResult(results, strategy) ==
  PyDict([results |-> results, search_strategy |-> strategy])

\* Faulty variant of SearchKeyword: no except clause, a failing SELECT is
\* raised to the caller.
SearchKeywordRaises(p, Qs, Ls) ==
  /\ pc[p] = "idle"
  /\ \E query \in Qs, limit \in Ls, outcome \in ConnOutcomes,
        lookup_ok \in BOOLEAN :
       LET formatted_results ==
             IF outcome = "ok" /\ lookup_ok THEN KeywordRows(query, limit)
             ELSE <<>>
       IN /\ frame' = [frame EXCEPT ![p] =
               Frame(query, limit, <<>>, FALSE, outcome = "ok",
                     outcome = "ok" /\ ~lookup_ok, formatted_results)]
          /\ ret' = [ret EXCEPT ![p] =
               IF outcome = "ok" /\ lookup_ok
                 THEN Returned("search_keyword", PyList(formatted_results))
                 ELSE Raised("search_keyword", "storage")]
  /\ pc' = [pc EXCEPT ![p] = "returned"]
  /\ UNCHANGED <<documents, vec_documents, wlock, batch, i, inserted_count,
                 tx, pre, waited, open_conns, out>>
  /\ UNCHANGED OutsideVars

\* search_keyword(query, limit) called by a client with a query of Qs and a
\* limit of Ls.  The connection is acquired
\* outside the try block; a failing SELECT is caught and gives [].
SearchKeyword(p, Qs, Ls) ==
  /\ pc[p] = "idle"
  /\ \E query \in Qs, limit \in Ls, outcome \in ConnOutcomes,
        lookup_ok \in BOOLEAN :
       LET formatted_results ==
             IF outcome = "ok" /\ lookup_ok THEN KeywordRows(query, limit)
             ELSE <<>>
       IN /\ frame' = [frame EXCEPT ![p] =
               Frame(query, limit, <<>>, FALSE, outcome = "ok",
                     outcome = "ok" /\ ~lookup_ok, formatted_results)]
          /\ ret' = [ret EXCEPT ![p] =
               IF outcome = "ok"
                 THEN Returned("search_keyword", PyList(formatted_results))
                 ELSE Raised("search_keyword", "storage")]
  /\ pc' = [pc EXCEPT ![p] = "returned"]
  /\ UNCHANGED <<documents, vec_documents, wlock, batch, i, inserted_count,
                 tx, pre, waited, open_conns, out>>
  /\ UNCHANGED OutsideVars

\* search(query, limit) whose embed_text(query) raises: no connection yet.
SearchEmbedFail(p) ==
  /\ pc[p] = "idle"
  /\ ret' = [ret EXCEPT ![p] = Raised("search", "embedding")]
  /\ pc' = [pc EXCEPT ![p] = "returned"]
  /\ UNCHANGED <<documents, vec_documents, wlock, batch, i, inserted_count,
                 tx, pre, waited, frame, open_conns, out>>
  /\ UNCHANGED OutsideVars

\* search(query, limit), query in Qs and limit in Ls, up to the strong-match
\* test: the query is embedded, the
\* connection acquired (outside the try block), the vector lookup run (a
\* failure is caught and gives no rows) and the connection closed.  With no
\* rows or a strong match the call returns; otherwise it goes on to the keyword
\* lookup.
Search(p, Qs, Ls) ==
  /\ pc[p] = "idle"
  /\ \E query \in Qs, limit \in Ls, outcome \in ConnOutcomes,
        lookup_ok \in BOOLEAN, tie \in TieOrders :
       LET vector_results ==
             IF outcome = "ok" /\ lookup_ok THEN VectorRows(query, limit, tie)
             ELSE <<>>
           stage == HybridStage(vector_results)
       IN /\ frame' = [frame EXCEPT ![p] =
               Frame(query, limit, vector_results,
                     outcome = "ok" /\ ~lookup_ok, FALSE, FALSE, <<>>)]
          /\ IF outcome # "ok"
               THEN /\ ret' = [ret EXCEPT ![p] = Raised("search", "storage")]
                    /\ pc' = [pc EXCEPT ![p] = "returned"]
             ELSE IF stage = "no_results"
               THEN /\ ret' = [ret EXCEPT ![p] = Returned("search",
                                 SearchResult(<<>>, "no_results"))]
                    /\ pc' = [pc EXCEPT ![p] = "returned"]
             ELSE IF stage = "strong_match"
               THEN /\ ret' = [ret EXCEPT ![p] = Returned("search",
                                 SearchResult(vector_results, "strong_match"))]
                    /\ pc' = [pc EXCEPT ![p] = "returned"]
             ELSE /\ pc' = [pc EXCEPT ![p] = "search_fallback"]
                  /\ UNCHANGED ret
  /\ UNCHANGED <<documents, vec_documents, wlock, batch, i, inserted_count, tx,
                 pre, waited, open_conns, out>>
  /\ UNCHANGED OutsideVars

\* Faulty variant of SearchFallback: the keyword rows returned with strategy
\* keyword whether or not there are any.
SearchFallbackKeywordAlways(p) ==
  /\ pc[p] = "search_fallback"
  /\ \E outcome \in ConnOutcomes, lookup_ok \in BOOLEAN :
       LET keyword_results ==
             IF outcome = "ok" /\ lookup_ok
               THEN KeywordRows(frame[p].query, frame[p].limit)
               ELSE <<>>
       IN /\ frame' = [frame EXCEPT
               ![p].keyword_called = (outcome = "ok"),
               ![p].keyword_failed = (outcome = "ok" /\ ~lookup_ok),
               ![p].keyword_results = keyword_results]
          /\ ret' = [ret EXCEPT ![p] =
               IF outcome # "ok" THEN Raised("search", "storage")
               ELSE Returned("search",
                             SearchResult(keyword_results, "keyword"))]
  /\ pc' = [pc EXCEPT ![p] = "returned"]
  /\ UNCHANGED <<documents, vec_documents, wlock, batch, i, inserted_count, tx,
                 pre, waited, open_conns, out>>
  /\ UNCHANGED OutsideVars

\* Faulty variant of SearchFallback: without keyword rows, the (empty) keyword
\* rows returned as the weak match in the place of the vector rows.
SearchFallbackWeakKeywordRows(p) ==
  /\ pc[p] = "search_fallback"
  /\ \E outcome \in ConnOutcomes, lookup_ok \in BOOLEAN :
       LET keyword_results ==
             IF outcome = "ok" /\ lookup_ok
               THEN KeywordRows(frame[p].query, frame[p].limit)
               ELSE <<>>
       IN /\ frame' = [frame EXCEPT
               ![p].keyword_called = (outcome = "ok"),
               ![p].keyword_failed = (outcome = "ok" /\ ~lookup_ok),
               ![p].keyword_results = keyword_results]
          /\ ret' = [ret EXCEPT ![p] =
               IF outcome # "ok" THEN Raised("search", "storage")
               ELSE Returned("search",
                      IF keyword_results # <<>>
                        THEN SearchResult(keyword_results, "keyword")
                        ELSE SearchResult(keyword_results, "weak_match"))]
  /\ pc' = [pc EXCEPT ![p] = "returned"]
  /\ UNCHANGED <<documents, vec_documents, wlock, batch, i, inserted_count, tx,
                 pre, waited, open_conns, out>>
  /\ UNCHANGED OutsideVars

\* The rest of search: self.search_keyword(query, limit) on a connection of its
\* own, then the choice between the keyword rows and the weak vector rows.
SearchFallback(p) ==
  /\ pc[p] = "search_fallback"
  /\ \E outcome \in ConnOutcomes, lookup_ok \in BOOLEAN :
       LET keyword_results ==
             IF outcome = "ok" /\ lookup_ok
               THEN KeywordRows(frame[p].query, frame[p].limit)
               ELSE <<>>
       IN /\ frame' = [frame EXCEPT
               ![p].keyword_called = (outcome = "ok"),
               ![p].keyword_failed = (outcome = "ok" /\ ~lookup_ok),
               ![p].keyword_results = keyword_results]
          /\ ret' = [ret EXCEPT ![p] =
               IF outcome # "ok" THEN Raised("search", "storage")
               ELSE Returned("search",
                      IF keyword_results # <<>>
                        THEN SearchResult(keyword_results, "keyword")
                        ELSE SearchResult(frame[p].vector_results,
                                          "weak_match"))]
  /\ pc' = [pc EXCEPT ![p] = "returned"]
  /\ UNCHANGED <<documents, vec_documents, wlock, batch, i, inserted_count, tx,
                 pre, waited, open_conns, out>>
  /\ UNCHANGED OutsideVars

\* The caller has taken what the call handed back and is ready for its next
\* call; nothing of the finished call's locals is left.
Continue(p) ==
  /\ pc[p] = "returned"
  /\ pc' = [pc EXCEPT ![p] = "idle"]
  /\ batch' = [batch EXCEPT ![p] = <<>>]
  /\ i' = [i EXCEPT ![p] = 0]
  /\ inserted_count' = [inserted_count EXCEPT ![p] = 0]
  /\ out' = [out EXCEPT ![p] = <<>>]
  /\ ret' = [ret EXCEPT ![p] = NoRet]
  /\ pre' = [pre EXCEPT ![p] = NoTx]
  /\ waited' = [waited EXCEPT ![p] = 0]
  /\ frame' = [frame EXCEPT ![p] = NoFrame]
  /\ UNCHANGED <<documents, vec_documents, wlock, tx, open_conns>>
  /\ UNCHANGED OutsideVars

\* ------------------------------------------------------------------ specs

\* The limits of search and search_keyword calls.
Limits == 0..MaxLimit

\* One process using the store.
Next ==
  \E p \in MainProcs :
    \/ setup_db(p)
    \/ AddNothing(p)
    \/ AddBegin(p, Docs)
    \/ AddDrop(p)
    \/ AddInsert(p)
    \/ AddEmbedFail(p)
    \/ AddStorageFail(p)
    \/ AddCommit(p)
    \/ SearchKeyword(p, Queries, Limits)
    \/ SearchEmbedFail(p)
    \/ Search(p, Queries, Limits)
    \/ SearchFallback(p)
    \/ Continue(p)

Spec == Init /\ [][Next]_vars

\* Two processes on one store file, each ingesting its own source.
WorkerDocs(p) == IF p = "p1" THEN {DocOk, DocPadded} ELSE {DocDup, DocUnknown}

\* The queries readers put while the workers write: one that matches the
\* workers' documents by keyword and one that does not.
ConcQueries == {QueryEdge, QueryNone}
ConcLimits == {MaxLimit}

NextConc ==
  \E p \in Procs :
    \/ setup_db(p)
    \/ AddNothing(p)
    \/ AddBegin(p, WorkerDocs(p))
    \/ AddDrop(p)
    \/ AddInsert(p)
    \/ AddEmbedFail(p)
    \/ AddStorageFail(p)
    \/ AddCommit(p)
    \/ LockWait(p)
    \/ LockTimeout(p)
    \/ SearchKeyword(p, ConcQueries, ConcLimits)
    \/ SearchEmbedFail(p)
    \/ Search(p, ConcQueries, ConcLimits)
    \/ SearchFallback(p)
    \/ Continue(p)

SpecConc == Init /\ [][NextConc]_vars

\* A store file that already holds rows written straight into its tables (as
\* tests/test_filtering.py does): NULL content with an all-zero vector, a valid
\* document without a vector entry, a short one and one of source "Unknown"
\* with their vectors, a valid one with NULL metadata, and a valid one with
\* an all-zero vector.
MaxLegacy == 2

LegacyRow(source, content, metadata, vec) ==
  [source |-> source, content |-> content, metadata |-> metadata, vec |-> vec]

LegacyRows ==
  {LegacyRow("valid_source", SqlNull, json_dumps(EmptyDict), "zero"),
   LegacyRow("slack", KeywordDoc, json_dumps(EmptyDict), "none"),
   LegacyRow("slack", Hi, json_dumps(EmptyDict), "own"),
   LegacyRow("Unknown", KeywordNotes, json_dumps(EmptyDict), "own"),
   LegacyRow("slack", KeywordDoc, SqlNull, "own"),
   LegacyRow("github", KeywordDoc, json_dumps(EmptyDict), "zero")}

InitLegacy ==
  /\ \E rows \in SeqsUpTo(LegacyRows, MaxLegacy) :
       /\ documents =
            [k \in 1..Len(rows) |->
               [rowid |-> k, id |-> <<"legacy", k>>, source |-> rows[k].source,
                content |-> rows[k].content, metadata |-> rows[k].metadata]]
       /\ vec_documents =
            {[rowid |-> k,
              embedding |-> IF rows[k].vec = "zero"
                              THEN [n \in 1..target_dim |-> 0]
                              ELSE embed_text(rows[k].content)] :
             k \in {n \in 1..Len(rows) : rows[n].vec # "none"}}
  /\ InitProcs
  /\ Idle

SpecLegacy == InitLegacy /\ [][Next]_vars

\* embed_text on its own.  The embedding model hands back a raw vector of
\* RawDim components (768 in the program, more than target_dim), each drawn
\* from -MaxRaw..MaxRaw; the all-zero vector is among them.
RawDim == target_dim + 1
MaxRaw == 2
RawValues == (0 - MaxRaw)..MaxRaw

InitEmbed ==
  /\ documents = <<>>
  /\ vec_documents = {}
  /\ InitProcs
  /\ \E e \in [1..RawDim -> RawValues] :
       embed = [pc |-> "called", embedding |-> e, result |-> <<>>]
  /\ slack = NoCall
  /\ google = NoCall
  /\ importer = NoCall
  /\ worker = NoCall

\* embed_text(text) runs from the model's answer to its return.
EmbedText ==
  /\ embed.pc = "called"
  /\ embed' = [embed EXCEPT !.pc = "returned",
                            !.result = embed_vector(embed.embedding)]
  /\ UNCHANGED <<StoreVars, slack, google, importer, worker>>

NextEmbed == EmbedText

SpecEmbed == InitEmbed /\ [][NextEmbed]_vars

\* A client of the keyword lookup alone: batches of an admissible, a second
\* admissible and a too short document, and queries with and without a LIKE
\* wildcard character.
KeywordDocs == {DocOk, DocNotes, DocPadded}
KeywordQueries == {QueryKey, QueryEdge, QueryWild}

NextKeyword ==
  \E p \in MainProcs :
    \/ setup_db(p)
    \/ AddBegin(p, KeywordDocs)
    \/ AddDrop(p)
    \/ AddInsert(p)
    \/ AddCommit(p)
    \/ SearchKeyword(p, KeywordQueries, Limits)
    \/ Continue(p)

SpecKeyword == Init /\ [][NextKeyword]_vars

\* --------------------------------------------------------- SlackConnector

\* The most channels conversations.list gives a sync.
MaxChannels == 3

\* A channel as _fetch_channels returns it.
Channel(id, is_archived) == [id |-> id, is_archived |-> is_archived]

\* _process_channel(channel, since_timestamp) when it returns: the documents
\* of the channel's messages (one or two of them, by the channel).
channel_docs(channel) ==
  [m \in 1..(1 + (channel.id % 2)) |->
     [source |-> "slack", channel |-> channel.id, message |-> m]]

\* sync() has fetched the channels and the users and enters the first sweep.
InitSlack ==
  /\ documents = <<>>
  /\ vec_documents = {}
  /\ InitProcs
  /\ embed = NoCall
  /\ \E n \in 0..MaxChannels : \E archived \in [1..n -> BOOLEAN] :
       slack = [pc |-> "sweep1",
                channels |-> [k \in 1..n |-> Channel(k, archived[k])],
                i |-> 1,
                failed_channels |-> <<>>,
                retry |-> 1,
                documents |-> <<>>,
                docs_processed |-> 0,
                calls |-> [k \in 1..n |-> <<>>]]
  /\ google = NoCall
  /\ importer = NoCall
  /\ worker = NoCall

\* The first sweep is at a channel.
InSweep1 == slack.pc = "sweep1" /\ slack.i <= Len(slack.channels)

\* Sweep 1: an archived channel is skipped.
Sweep1Archived ==
  /\ InSweep1
  /\ slack.channels[slack.i].is_archived
  /\ slack' = [slack EXCEPT !.i = @ + 1]
  /\ UNCHANGED <<StoreVars, embed, google, importer, worker>>

\* Sweep 1: _process_channel returns and its documents are kept.
Sweep1Processed ==
  /\ InSweep1
  /\ ~slack.channels[slack.i].is_archived
  /\ LET docs == slack.documents \o channel_docs(slack.channels[slack.i])
     IN slack' = [slack EXCEPT !.documents = docs,
                               !.docs_processed = Len(docs),
                               !.calls[slack.i] = Append(@, "ok"),
                               !.i = @ + 1]
  /\ UNCHANGED <<StoreVars, embed, google, importer, worker>>

\* Faulty variant of Sweep1Failed: the channel is not queued for a retry.
Sweep1FailedDropped ==
  /\ InSweep1
  /\ ~slack.channels[slack.i].is_archived
  /\ slack' = [slack EXCEPT !.calls[slack.i] = Append(@, "raise"),
                            !.i = @ + 1]
  /\ UNCHANGED <<StoreVars, embed, google, importer, worker>>

\* Sweep 1: _process_channel raises; the channel goes to failed_channels.
Sweep1Failed ==
  /\ InSweep1
  /\ ~slack.channels[slack.i].is_archived
  /\ slack' = [slack EXCEPT !.failed_channels = Append(@, slack.channels[slack.i]),
                            !.calls[slack.i] = Append(@, "raise"),
                            !.i = @ + 1]
  /\ UNCHANGED <<StoreVars, embed, google, importer, worker>>

\* The first loop ends: the second sweep starts if a channel failed, and sync
\* returns documents otherwise.
Sweep1Done ==
  /\ slack.pc = "sweep1"
  /\ slack.i > Len(slack.channels)
  /\ slack' = [slack EXCEPT !.pc = IF slack.failed_channels # <<>>
                                     THEN "sweep2" ELSE "returned"]
  /\ UNCHANGED <<StoreVars, embed, google, importer, worker>>

\* The second sweep is at a failed channel.
InSweep2 == slack.pc = "sweep2" /\ slack.retry <= Len(slack.failed_channels)

\* Sweep 2: the retry of a failed channel returns.
Sweep2Processed ==
  /\ InSweep2
  /\ LET channel == slack.failed_channels[slack.retry]
         docs == slack.documents \o channel_docs(channel)
     IN slack' = [slack EXCEPT !.documents = docs,
                               !.docs_processed = Len(docs),
                               !.calls[channel.id] = Append(@, "ok"),
                               !.retry = @ + 1]
  /\ UNCHANGED <<StoreVars, embed, google, importer, worker>>

\* Sweep 2: the retry raises too; the channel is given up.
Sweep2Failed ==
  /\ InSweep2
  /\ LET channel == slack.failed_channels[slack.retry]
     IN slack' = [slack EXCEPT !.calls[channel.id] = Append(@, "raise"),
                               !.retry = @ + 1]
  /\ UNCHANGED <<StoreVars, embed, google, importer, worker>>

\* The second loop ends: sync returns documents.
Sweep2Done ==
  /\ slack.pc = "sweep2"
  /\ slack.retry > Len(slack.failed_channels)
  /\ slack' = [slack EXCEPT !.pc = "returned"]
  /\ UNCHANGED <<StoreVars, embed, google, importer, worker>>

NextSlack ==
  \/ Sweep1Archived
  \/ Sweep1Processed
  \/ Sweep1Failed
  \/ Sweep1Done
  \/ Sweep2Processed
  \/ Sweep2Failed
  \/ Sweep2Done

SpecSlack == InitSlack /\ [][NextSlack]_vars

\* sync is one sequential call: each _process_channel returns or raises
\* (the Slack client's requests time out) and each sleep ends.
SpecSlackFair == SpecSlack /\ WF_vars(NextSlack)

\* ----------------------------------------------- GoogleWorkspaceConnector

\* The _api_get calls made on one connector.
MaxCalls == 3

\* A connector as __init__ leaves it: the access token it was given (tokens
\* are numbered in the order Google issues them), with or without a refresh
\* token and client credentials, and no refresh done; no _api_get call yet.
InitGoogle ==
  /\ documents = <<>>
  /\ vec_documents = {}
  /\ InitProcs
  /\ embed = NoCall
  /\ slack = NoCall
  /\ \E refresh_token \in BOOLEAN, credentials \in BOOLEAN :
       google = [pc |-> "idle",
                 access_token |-> 0,
                 refresh_token |-> refresh_token,
                 credentials |-> credentials,
                 token_refreshed |-> FALSE,
                 retry |-> TRUE,
                 calls |-> 0,
                 sent |-> <<>>,
                 statuses |-> <<>>,
                 refresh |-> <<>>,
                 refreshes |-> 0,
                 value |-> "none"]
  /\ importer = NoCall
  /\ worker = NoCall

\* A caller calls _api_get(url, params): _retry is True.
ApiGet ==
  /\ google.pc \in {"idle", "returned"}
  /\ google.calls < MaxCalls
  /\ google' = [google EXCEPT !.pc = "get", !.retry = TRUE, !.calls = @ + 1,
                               !.sent = <<>>, !.statuses = <<>>,
                               !.refresh = <<>>, !.value = "none"]
  /\ UNCHANGED <<StoreVars, embed, slack, importer, worker>>

\* requests.get with the current access token is answered 200: _api_get
\* returns the JSON body.
GetOk ==
  /\ google.pc = "get"
  /\ google' = [google EXCEPT !.pc = "returned", !.value = "json",
                               !.sent = Append(@, google.access_token),
                               !.statuses = Append(@, 200)]
  /\ UNCHANGED <<StoreVars, embed, slack, importer, worker>>

\* requests.get is answered 403 or another status but 200 and 401, or
\* raises a RequestException: _api_get returns None.
GetRefused ==
  /\ google.pc = "get"
  /\ \E status \in {403, 500, 0} :
       google' = [google EXCEPT !.pc = "returned", !.value = "None",
                                 !.sent = Append(@, google.access_token),
                                 !.statuses = Append(@, status)]
  /\ UNCHANGED <<StoreVars, embed, slack, importer, worker>>

\* requests.get is answered 401: with _retry, _refresh_access_token is
\* called; without, _api_get returns None.
GetUnauthorized ==
  /\ google.pc = "get"
  /\ google' = [google EXCEPT !.pc = IF google.retry THEN "refresh" ELSE "returned",
                               !.value = IF google.retry THEN @ ELSE "None",
                               !.sent = Append(@, google.access_token),
                               !.statuses = Append(@, 401)]
  /\ UNCHANGED <<StoreVars, embed, slack, importer, worker>>

\* _refresh_access_token can post: it has a refresh token and client
\* credentials and has not refreshed before.
CanRefresh ==
  google.refresh_token /\ google.credentials /\ ~google.token_refreshed

\* _refresh_access_token returns False before posting, so _api_get returns
\* None.
RefreshRefused ==
  /\ google.pc = "refresh"
  /\ ~CanRefresh
  /\ google' = [google EXCEPT !.pc = "returned", !.value = "None",
                               !.refresh = Append(@, "refused")]
  /\ UNCHANGED <<StoreVars, embed, slack, importer, worker>>

\* The POST to the token endpoint raises a RequestException, is answered
\* with another status than 200, or carries no access token:
\* _refresh_access_token returns False, so _api_get returns None.
RefreshFailed ==
  /\ google.pc = "refresh"
  /\ CanRefresh
  /\ google' = [google EXCEPT !.pc = "returned", !.value = "None",
                               !.refresh = Append(@, "failed")]
  /\ UNCHANGED <<StoreVars, embed, slack, importer, worker>>

\* Faulty variant of RefreshSucceeded: _token_refreshed is not set.
RefreshSucceededUnmarked ==
  /\ google.pc = "refresh"
  /\ CanRefresh
  /\ google' = [google EXCEPT !.pc = "get", !.retry = FALSE,
                               !.access_token = @ + 1,
                               !.refreshes = @ + 1,
                               !.refresh = Append(@, "ok")]
  /\ UNCHANGED <<StoreVars, embed, slack, importer, worker>>

\* The token endpoint answers 200 with a new access token: the connector
\* takes it, sets _token_refreshed, and _api_get calls itself with
\* _retry=False.
RefreshSucceeded ==
  /\ google.pc = "refresh"
  /\ CanRefresh
  /\ google' = [google EXCEPT !.pc = "get", !.retry = FALSE,
                               !.access_token = @ + 1,
                               !.token_refreshed = TRUE,
                               !.refreshes = @ + 1,
                               !.refresh = Append(@, "ok")]
  /\ UNCHANGED <<StoreVars, embed, slack, importer, worker>>

NextGoogle ==
  \/ ApiGet
  \/ GetOk
  \/ GetRefused
  \/ GetUnauthorized
  \/ RefreshRefused
  \/ RefreshFailed
  \/ RefreshSucceeded

SpecGoogle == InitGoogle /\ [][NextGoogle]_vars

\* -------------------------------------------------------------- importers

\* The most messages of one conversation of an export.
MaxMessages == 2

\* The parts of an OpenAI message's content: a string, a dict with or without
\* a "text" entry, or something else (the text is what the part contributes
\* when it is read).
StrPart(text) == [kind |-> "str", text |-> text]
DictPart(text) == [kind |-> "dict", text |-> text]
OtherPart == [kind |-> "other", text |-> <<>>]

\* A node of an OpenAI conversation's mapping, with or without a message.
OpenAINode(role, parts, create_time) ==
  [message |-> [role |-> role, parts |-> parts, create_time |-> create_time]]
OpenAIEmptyNode == [message |-> PyNone]

OpenAINodes ==
  {OpenAIEmptyNode,
   OpenAINode("user", <<StrPart(Hi)>>, 1704067200),
   OpenAINode("assistant", <<StrPart(<<"o">>), OtherPart, DictPart(<<"k">>)>>, 0),
   OpenAINode("system", <<StrPart(Hi)>>, 1704067200),
   OpenAINode("user", <<DictPart(<<>>), OtherPart>>, 1704067200)}

\* A message of an Anthropic conversation's chat_messages.
AnthropicMessage(sender, text) == [sender |-> sender, text |-> text]

AnthropicMessages ==
  {AnthropicMessage("human", Hi),
   AnthropicMessage("assistant", <<"4">>),
   AnthropicMessage("system", Hi),
   AnthropicMessage("human", <<>>),
   AnthropicMessage("tool", <<>>)}

\* The exports: up to two conversations, numbered in the order of the file.
Exports(Messages) ==
  {[k \in 1..Len(convs) |-> [id |-> k, messages |-> convs[k]]] :
     convs \in SeqsUpTo(SeqsUpTo(Messages, MaxMessages), 2)}

\* The loop over parts: strings are appended, dicts give their "text" or "",
\* anything else is passed over.
RECURSIVE join_parts(_)
join_parts(parts) ==
  IF parts = <<>> THEN <<>>
  ELSE (IF Head(parts).kind \in {"str", "dict"} THEN Head(parts).text ELSE <<>>)
       \o join_parts(Tail(parts))

\* datetime.fromtimestamp(create_time).isoformat() if create_time else None.
timestamp(create_time) == IF create_time = 0 THEN None ELSE <<"iso", create_time>>

\* Faulty variant of openai_roles: system messages pass too.
OpenAIRolesWithSystem == {"user", "assistant", "system"}

\* The roles OpenAIImporter keeps.
openai_roles == {"user", "assistant"}

\* The senders AnthropicImporter keeps.
anthropic_senders == {"human", "assistant"}

\* OpenAIImporter: the documents of the nodes of one conversation.
RECURSIVE openai_nodes(_, _)
openai_nodes(conv_id, nodes) ==
  IF nodes = <<>> THEN <<>>
  ELSE LET message == Head(nodes).message
           text == join_parts(message.parts)
       IN (IF message = PyNone THEN <<>>
           ELSE IF message.role \notin openai_roles THEN <<>>
           ELSE IF text = <<>> THEN <<>>
           ELSE <<Document("openai", text,
                           [conversation_id |-> conv_id,
                            role |-> message.role,
                            timestamp |-> timestamp(message.create_time),
                            source_format |-> "openai"])>>)
          \o openai_nodes(conv_id, Tail(nodes))

\* AnthropicImporter: the documents of the chat_messages of one conversation.
RECURSIVE anthropic_messages(_, _)
anthropic_messages(conv_id, chat_messages) ==
  IF chat_messages = <<>> THEN <<>>
  ELSE LET msg == Head(chat_messages)
       IN (IF msg.sender \notin anthropic_senders THEN <<>>
           ELSE IF msg.text = <<>> THEN <<>>
           ELSE <<Document("anthropic", msg.text,
                           [conversation_id |-> conv_id,
                            role |-> IF msg.sender = "human" THEN "user"
                                     ELSE "assistant",
                            source_format |-> "anthropic"])>>)
          \o anthropic_messages(conv_id, Tail(chat_messages))

\* import_conversations(data) of the importer for `format`.
RECURSIVE import_conversations(_, _)
import_conversations(format, data) ==
  IF data = <<>> THEN <<>>
  ELSE (IF format = "openai"
          THEN openai_nodes(Head(data).id, Head(data).messages)
          ELSE anthropic_messages(Head(data).id, Head(data).messages))
       \o import_conversations(format, Tail(data))

\* An export has been parsed from its file and handed to its importer.
InitImport ==
  /\ documents = <<>>
  /\ vec_documents = {}
  /\ InitProcs
  /\ embed = NoCall
  /\ slack = NoCall
  /\ google = NoCall
  /\ \/ \E data \in Exports(OpenAINodes) :
          importer = [pc |-> "called", format |-> "openai", data |-> data,
                      documents |-> <<>>]
     \/ \E data \in Exports(AnthropicMessages) :
          importer = [pc |-> "called", format |-> "anthropic", data |-> data,
                      documents |-> <<>>]
  /\ worker = NoCall

\* OpenAIImporter.import_conversations runs and returns its documents.
OpenAIImport ==
  /\ importer.pc = "called"
  /\ importer.format = "openai"
  /\ importer' = [importer EXCEPT !.pc = "returned",
                     !.documents = import_conversations("openai", importer.data)]
  /\ UNCHANGED <<StoreVars, embed, slack, google, worker>>

\* AnthropicImporter.import_conversations runs and returns its documents.
AnthropicImport ==
  /\ importer.pc = "called"
  /\ importer.format = "anthropic"
  /\ importer' = [importer EXCEPT !.pc = "returned",
                     !.documents = import_conversations("anthropic", importer.data)]
  /\ UNCHANGED <<StoreVars, embed, slack, google, worker>>

NextImport == OpenAIImport \/ AnthropicImport

SpecImport == InitImport /\ [][NextImport]_vars

\* ----------------------------------------------------------- sync workers

\* The providers of `minna.cli sync --provider`.
Providers == {"slack", "google", "github"}

\* The documents a connector's sync may hand to its worker: two that
\* add_documents keeps, one too short and one of source "Unknown".
ConnectorDocs == {DocOk, DocNotes, DocPadded, DocUnknown}

\* No result yet.
NoResult == [documents |-> 0, success |-> FALSE]

\* sync_provider(provider) has announced the sync and constructs the worker
\* on a new store.
InitWorker ==
  /\ documents = <<>>
  /\ vec_documents = {}
  /\ InitProcs
  /\ embed = NoCall
  /\ slack = NoCall
  /\ google = NoCall
  /\ importer = NoCall
  /\ \E provider \in Providers :
       worker = [pc |-> "new", provider |-> provider, documents |-> <<>>,
                 result |-> NoResult, progress |-> <<"starting">>]

\* The worker's __init__ has made its VectorManager; sync() is called.
WorkerReady(p) ==
  /\ worker.pc = "new"
  /\ ret[p].op = "setup_db"
  /\ Continue(p)

\* self.connector.sync(...) returns its documents; with none of them the
\* worker returns {"documents": 0, "success": True}.
ConnectorSync(p) ==
  /\ worker.pc = "new"
  /\ pc[p] = "idle"
  /\ \E docs \in SeqsUpTo(ConnectorDocs, Room(p)) :
       worker' = [worker EXCEPT
                    !.documents = docs,
                    !.pc = IF docs = <<>> THEN "returned" ELSE "indexing",
                    !.result = IF docs = <<>>
                                 THEN [documents |-> 0, success |-> TRUE]
                                 ELSE @]
  /\ UNCHANGED <<StoreVars, embed, slack, google, importer>>

\* self.connector.sync(...) raises: the worker raises it again.
ConnectorFail(p) ==
  /\ worker.pc = "new"
  /\ pc[p] = "idle"
  /\ worker' = [worker EXCEPT !.pc = "raised"]
  /\ UNCHANGED <<StoreVars, embed, slack, google, importer>>

\* self.db.add_documents(documents) is called with the connector's documents.
WorkerIndex(p) ==
  /\ worker.pc = "indexing"
  /\ AddBegin(p, ConnectorDocs)
  /\ batch'[p] = worker.documents

\* add_documents has ended: when it returned, the worker returns
\* {"documents": len(documents), "success": True}; when it raised, the worker
\* raises the error again.
WorkerReturn(p) ==
  /\ worker.pc = "indexing"
  /\ pc[p] = "returned"
  /\ ret[p].op = "add_documents"
  /\ worker' = [worker EXCEPT
                  !.pc = IF ret[p].raised = "none" THEN "returned" ELSE "raised",
                  !.result = IF ret[p].raised = "none"
                               THEN [documents |-> Len(worker.documents),
                                     success |-> TRUE]
                               ELSE @]
  /\ UNCHANGED <<StoreVars, embed, slack, google, importer>>

\* sync_provider emits the final progress event: "complete" with
\* documents_processed=result.get("documents", 0), or "error".
SyncProviderEmit ==
  /\ worker.pc \in {"returned", "raised"}
  /\ worker' = [worker EXCEPT
                  !.pc = "done",
                  !.progress = IF worker.pc = "returned"
                                 THEN <<"complete", worker.result.documents>>
                                 ELSE <<"error">>]
  /\ UNCHANGED <<StoreVars, embed, slack, google, importer>>

NextWorker ==
  \E p \in MainProcs :
    \/ setup_db(p)
    \/ WorkerReady(p)
    \/ ConnectorSync(p)
    \/ ConnectorFail(p)
    \/ WorkerIndex(p)
    \/ AddDrop(p)
    \/ AddInsert(p)
    \/ AddEmbedFail(p)
    \/ AddStorageFail(p)
    \/ AddCommit(p)
    \/ WorkerReturn(p)
    \/ SyncProviderEmit

SpecWorker == InitWorker /\ [][NextWorker]_vars

\* ----------------------------------------------------------------- claims

\* add_documents(batch) with a non-empty batch has ended in process p.
AddReturned(p) ==
  pc[p] = "returned" /\ ret[p].op = "add_documents" /\ batch[p] # <<>>

\* The call printed "Error adding documents" for an error among `errs`.
PrintedError(o, errs) ==
  \E k \in 1..Len(o) : o[k][1] = "error" /\ o[k][2] \in errs

\* The candidate a stored row was made from.
DocOf(row) == Document(row.source, row.content, json_loads(row.metadata))

DocsOf(rows) == [k \in 1..Len(rows) |-> DocOf(rows[k])]

\* The rows of `rows` after the first n.
From(rows, n) == SubSeq(rows, n + 1, Len(rows))

\* C1: when an insert (or the commit) of a batch fails with a storage error,
\* the committed documents and vector entries are exactly those of before the
\* call, nothing stays uncommitted on the connection, and the call ends by
\* raising that storage error.
C1_RollbackOnStorageError ==
  \A p \in MainProcs :
    (AddReturned(p) /\ PrintedError(out[p], StorageErrors)) =>
      /\ documents = pre[p].docs
      /\ vec_documents = pre[p].vecs
      /\ tx[p] = NoTx
      /\ ret[p] = Raised("add_documents", "storage")

\* C1 witness: the storage error hits the middle one of three kept candidates,
\* after one of them had been inserted.
C1_Witness ==
  \E p \in MainProcs :
    /\ AddReturned(p)
    /\ PrintedError(out[p], StorageErrors)
    /\ Len(Kept(batch[p])) = 3
    /\ inserted_count[p] = 1

\* The rows of process p's own source in `rows` (in SpecConc every process
\* ingests a source of its own).
OwnSource(p) == IF p = "p1" THEN "slack" ELSE "github"

OwnRows(rows, p) ==
  LET own(r) == r.source = OwnSource(p) IN SelectSeq(rows, own)

\* What process p's batch has made of the committed table: none of the batch's
\* rows are in it, or all of them are.
BatchAbsent(p) == OwnRows(documents, p) = OwnRows(pre[p].docs, p)

BatchPresent(p) ==
  /\ Len(OwnRows(documents, p)) = Len(OwnRows(pre[p].docs, p)) + Len(Kept(batch[p]))
  /\ SubSeq(OwnRows(documents, p), 1, Len(OwnRows(pre[p].docs, p)))
       = OwnRows(pre[p].docs, p)
  /\ DocsOf(From(OwnRows(documents, p), Len(OwnRows(pre[p].docs, p))))
       = Kept(batch[p])

Blocked(w) ==
  /\ InLoop(w)
  /\ Admit(batch[w][i[w]]) = "keep"
  /\ wlock \notin {NoProc, w}

\* C3: a writer never waits for the write lock beyond the busy timeout (one
\* clock step at most past it): once the timeout has run out it can only fail.
\* A writer that failed has none of its batch committed, a writer that
\* succeeded has all of it, and the writers are never all blocked at once.
C3_WriterTimesOut ==
  /\ \A w \in Procs :
       /\ waited[w] < busy_timeout + TickMs
       /\ (Blocked(w) /\ waited[w] >= busy_timeout) =>
            (ENABLED LockTimeout(w) /\ ~ENABLED LockWait(w))
       /\ (AddReturned(w) /\ ret[w].raised # "none") =>
            (BatchAbsent(w) /\ tx[w] = NoTx /\ wlock # w)
       /\ (AddReturned(w) /\ ret[w].raised = "none") => BatchPresent(w)
  /\ \E w \in Procs : ~Blocked(w)

\* C3 witness: one writer has run into the busy timeout while the other one
\* has committed a batch with a kept candidate.
C3_Witness ==
  \E w \in Procs, v \in Procs :
    /\ w # v
    /\ AddReturned(w)
    /\ ret[w] = Raised("add_documents", "locked")
    /\ waited[w] >= busy_timeout
    /\ AddReturned(v)
    /\ ret[v].raised = "none"
    /\ Kept(batch[v]) # <<>>

\* C4: no committed document has fewer than 10 characters after strip(), and
\* none has the source "Unknown".
C4_StoredDocumentsAdmissible ==
  \A k \in 1..Len(documents) :
    /\ Len(strip(documents[k].content)) >= 10
    /\ documents[k].source # "Unknown"

\* C4 witness: a batch holding a padded short candidate and one of unknown
\* source has been committed, and the store is not empty.
C4_Witness ==
  \E p \in MainProcs :
    /\ AddReturned(p)
    /\ ret[p].raised = "none"
    /\ documents # <<>>
    /\ \E k \in 1..Len(batch[p]) : batch[p][k] = DocPadded
    /\ \E k \in 1..Len(batch[p]) : batch[p][k] = DocUnknown

\* C5: in every state the committed tables pair up: the documents have distinct
\* rowids, every document has exactly one vector entry under its rowid, and
\* every vector entry belongs to a document.
C5_OneVectorPerDocument ==
  /\ \A k, n \in 1..Len(documents) :
       documents[k].rowid = documents[n].rowid => k = n
  /\ \A k \in 1..Len(documents) :
       Cardinality({v \in vec_documents : v.rowid = documents[k].rowid}) = 1
  /\ \A v \in vec_documents :
       \E k \in 1..Len(documents) : documents[k].rowid = v.rowid

\* C5 witness: a second batch has been committed on top of a first one.
C5_Witness ==
  \E p \in MainProcs :
    /\ AddReturned(p)
    /\ ret[p].raised = "none"
    /\ pre[p].docs # <<>>
    /\ Len(documents) > Len(pre[p].docs)

\* C6: a successful add_documents hands the caller the number of documents it
\* inserted.
C6_ReturnsInsertedCount ==
  \A p \in MainProcs :
    (AddReturned(p) /\ ret[p].raised = "none") =>
      ret[p].value = PyInt(Len(documents) - Len(pre[p].docs))

\* C7: a call in which no statement fails commits exactly the kept candidates
\* of its batch, one row each, in batch order and after the rows that were
\* there, and prints their number; and a call only ever fails at a kept
\* candidate or at the commit, never at a dropped candidate.
C7_DropsNeverAbort ==
  \A p \in MainProcs :
    AddReturned(p) =>
      /\ ret[p].raised = "none" =>
           /\ SubSeq(documents, 1, Len(pre[p].docs)) = pre[p].docs
           /\ DocsOf(From(documents, Len(pre[p].docs))) = Kept(batch[p])
           /\ out[p][Len(out[p])] = <<"added", Len(Kept(batch[p]))>>
      /\ (ret[p].raised # "none" /\ i[p] \in 1..Len(batch[p])) =>
           Admit(batch[p][i[p]]) = "keep"

\* C7 witness: a batch with a dropped candidate before and after a kept one
\* has been committed.
C7_Witness ==
  \E p \in MainProcs :
    /\ AddReturned(p)
    /\ ret[p].raised = "none"
    /\ Len(batch[p]) = 3
    /\ Admit(batch[p][1]) # "keep"
    /\ Admit(batch[p][2]) = "keep"
    /\ Admit(batch[p][3]) # "keep"

\* The reasons the admission rules give for the candidates of `docs` that they
\* drop, in order: too_short before unknown_source.
RECURSIVE DropReasons(_)
DropReasons(docs) ==
  IF docs = <<>> THEN <<>>
  ELSE LET d == Head(docs)
       IN (IF Len(strip(d.content)) < 10 THEN << <<"dropped", "too_short">> >>
           ELSE IF d.source = "Unknown" THEN << <<"dropped", "unknown_source">> >>
           ELSE <<>>)
          \o DropReasons(Tail(docs))

\* What a call has printed about dropped candidates.
DropLog(o) == LET drop(e) == e[1] = "dropped" IN SelectSeq(o, drop)

\* C8: the drops a call has reported are, in order, those of the candidates it
\* has gone through that are too short (whatever their source) or, being long
\* enough, of source "Unknown", each with that reason; the others are kept.
C8_AdmissionOrder ==
  \A p \in MainProcs :
    (pc[p] \in {"add_loop", "returned"} /\ batch[p] # <<>> /\ i[p] >= 1) =>
      /\ DropLog(out[p]) = DropReasons(SubSeq(batch[p], 1, i[p] - 1))
      /\ Len(tx[p].docs) + Len(DropLog(out[p])) <= i[p] - 1
      /\ pc[p] = "add_loop" =>
           Len(tx[p].docs) + Len(DropLog(out[p])) = i[p] - 1

\* C8 witness: a short candidate of source "Unknown" was reported as too short
\* and a long one of source "Unknown" as of unknown source.
C8_Witness ==
  \E p \in MainProcs :
    /\ pc[p] = "add_loop"
    /\ i[p] = 3
    /\ batch[p][1] = DocUnknownShort
    /\ batch[p][2] = DocUnknown
    /\ out[p] = << <<"dropped", "too_short">>, <<"dropped", "unknown_source">> >>

\* C9: a process that is not inside a call holds no open connection.
C9_NoConnectionLeftOpen ==
  \A p \in MainProcs :
    pc[p] \in {"new", "idle", "returned"} => open_conns[p] = 0

\* The vector entries whose document passes the read filter.
EligibleVectorRows ==
  {v \in vec_documents :
     \E k \in 1..Len(documents) :
       documents[k].rowid = v.rowid /\ ReadFilter(documents[k])}

SearchReturned(p) ==
  pc[p] = "returned" /\ ret[p].op = "search" /\ ret[p].raised = "none"

\* C10: a search over a store without eligible vector rows returns no_results
\* and no rows, whatever the keyword lookup would find; and a search returns no
\* rows only together with no_results.
C10_NoResults ==
  \A p \in MainProcs :
    SearchReturned(p) =>
      /\ EligibleVectorRows = {} =>
           ret[p].value = SearchResult(<<>>, "no_results")
      /\ ret[p].value.v.results = <<>> =>
           ret[p].value.v.search_strategy = "no_results"

\* C10 witness: no_results although the keyword lookup for the same query finds
\* a row (its document has no vector entry).
C10_Witness ==
  \E p \in MainProcs :
    /\ SearchReturned(p)
    /\ EligibleVectorRows = {}
    /\ frame[p].limit >= 1
    /\ KeywordRows(frame[p].query, frame[p].limit) # <<>>
    /\ ret[p].value = SearchResult(<<>>, "no_results")

\* The strategy and the rows a returned search handed back.
Strategy(p) == ret[p].value.v.search_strategy
Results(p) == ret[p].value.v.results

\* The rows are in non-decreasing order of distance.
Ascending(rows) ==
  \A k \in 1..(Len(rows) - 1) : rows[k].distance <= rows[k + 1].distance

\* The vector lookup of the call gave rows, the closest at distance d.
TopDistance(p) == frame[p].vector_results[1].distance

\* C11: the vector results of a search are the deduplicated rows of the vector
\* lookup over the store; when the closest of them is below the threshold the
\* search returns exactly them with strong_match, in non-decreasing order of
\* distance and without calling the keyword lookup; when the closest is at the
\* threshold or above, the search does not return strong_match.
C11_StrongMatch ==
  \A p \in MainProcs :
    SearchReturned(p) =>
      /\ ~frame[p].vector_failed =>
           \E tie \in TieOrders :
             frame[p].vector_results
               = VectorRows(frame[p].query, frame[p].limit, tie)
      /\ (frame[p].vector_results # <<>> /\ TopDistance(p) < Threshold) =>
           /\ ret[p].value
                = SearchResult(frame[p].vector_results, "strong_match")
           /\ Ascending(Results(p))
           /\ ~frame[p].keyword_called
      /\ (frame[p].vector_results # <<>> /\ TopDistance(p) >= Threshold) =>
           Strategy(p) # "strong_match"

\* C11 witness: a strong match of two rows at different distances.
C11_Witness ==
  \E p \in MainProcs :
    /\ SearchReturned(p)
    /\ Strategy(p) = "strong_match"
    /\ Len(Results(p)) = 2
    /\ Results(p)[1].distance < Results(p)[2].distance
    /\ Results(p)[2].distance < Threshold

\* C12: a search returns strategy keyword exactly when its vector lookup gave
\* rows, the closest of them at the threshold or above, and search_keyword
\* returned at least one row for the same query and limit; its results are
\* then the rows search_keyword returned (the rows of the keyword SELECT over
\* the store), and none of them has a distance field.
C12_KeywordStrategy ==
  \A p \in MainProcs :
    SearchReturned(p) =>
      /\ (Strategy(p) = "keyword") <=>
           (/\ frame[p].vector_results # <<>>
            /\ TopDistance(p) >= Threshold
            /\ frame[p].keyword_results # <<>>)
      /\ (frame[p].keyword_called /\ ~frame[p].keyword_failed) =>
           frame[p].keyword_results
             = KeywordRows(frame[p].query, frame[p].limit)
      /\ Strategy(p) = "keyword" =>
           /\ frame[p].keyword_called
           /\ Results(p) = frame[p].keyword_results
           /\ \A k \in 1..Len(Results(p)) :
                DOMAIN Results(p)[k] = {"source", "content", "metadata"}

\* C12 witness: two keyword rows returned where the vector lookup had given
\* one weak row.
C12_Witness ==
  \E p \in MainProcs :
    /\ SearchReturned(p)
    /\ Strategy(p) = "keyword"
    /\ Len(Results(p)) = 2
    /\ Len(frame[p].vector_results) = 1

\* C13: a search whose closest vector row is at the threshold or above and
\* whose keyword lookup returned no row returns weak_match with exactly the
\* deduplicated vector rows, in their order and with their distances; and
\* weak_match is returned in no other case.
C13_WeakMatch ==
  \A p \in MainProcs :
    SearchReturned(p) =>
      /\ (/\ frame[p].vector_results # <<>>
          /\ TopDistance(p) >= Threshold
          /\ frame[p].keyword_results = <<>>) =>
           /\ ret[p].value = SearchResult(frame[p].vector_results, "weak_match")
           /\ frame[p].keyword_called
           /\ \A k \in 1..Len(Results(p)) :
                /\ "distance" \in DOMAIN Results(p)[k]
                /\ Results(p)[k].distance >= Threshold
      /\ Strategy(p) = "weak_match" =>
           /\ frame[p].vector_results # <<>>
           /\ TopDistance(p) >= Threshold
           /\ frame[p].keyword_results = <<>>

\* C13 witness: a weak match of two rows at different distances, after a
\* keyword lookup that ran and found nothing.
C13_Witness ==
  \E p \in MainProcs :
    /\ SearchReturned(p)
    /\ Strategy(p) = "weak_match"
    /\ ~frame[p].keyword_failed
    /\ Len(Results(p)) = 2
    /\ Results(p)[1].distance < Results(p)[2].distance

\* A search or a search_keyword call has returned in process p.
LookupReturned(p) ==
  /\ pc[p] = "returned"
  /\ ret[p].op \in {"search", "search_keyword"}
  /\ ret[p].raised = "none"

\* The rows it handed back.
ReturnedRows(p) ==
  IF ret[p].op = "search" THEN Results(p) ELSE ret[p].value.v

\* C14: whatever rows the tables hold, no row returned by search (under any
\* strategy) or by search_keyword has the source "Unknown", a NULL content or
\* a content of 10 characters or fewer.
C14_ResultsPassReadFilter ==
  \A p \in MainProcs :
    LookupReturned(p) =>
      \A k \in 1..Len(ReturnedRows(p)) :
        /\ ReturnedRows(p)[k].source # "Unknown"
        /\ ReturnedRows(p)[k].content # SqlNull
        /\ Len(ReturnedRows(p)[k].content) > 10

\* C14 witness: a lookup has returned rows from a store that also holds a row
\* of source "Unknown" matching the query and a row of NULL content with a
\* vector entry.
C14_Witness ==
  \E p \in MainProcs :
    /\ LookupReturned(p)
    /\ ReturnedRows(p) # <<>>
    /\ \E k \in 1..Len(documents) :
         /\ documents[k].source = "Unknown"
         /\ Like(like_query(frame[p].query), documents[k].content)
    /\ \E k \in 1..Len(documents) :
         /\ documents[k].content = SqlNull
         /\ \E v \in vec_documents : v.rowid = documents[k].rowid

\* The rows the vector SELECT of a search gives before de-duplication.
Candidates(p, tie) ==
  Joined(Matches(embed_text(frame[p].query), frame[p].limit, tie))

\* C15: the rows returned with strong_match or weak_match have pairwise
\* different contents and are in non-decreasing order of distance, and each
\* has the lowest distance among the rows of its content that the vector
\* SELECT gave.
C15_DedupKeepsClosest ==
  \A p \in MainProcs :
    (SearchReturned(p) /\ Strategy(p) \in {"strong_match", "weak_match"}) =>
      /\ \A j, k \in 1..Len(Results(p)) :
           Results(p)[j].content = Results(p)[k].content => j = k
      /\ Ascending(Results(p))
      /\ \E tie \in TieOrders :
           /\ Results(p) = VectorRows(frame[p].query, frame[p].limit, tie)
           /\ \A k \in 1..Len(Results(p)), c \in 1..Len(Candidates(p, tie)) :
                Candidates(p, tie)[c].content = Results(p)[k].content =>
                  Results(p)[k].distance <= Candidates(p, tie)[c].distance

\* C15 witness: the vector SELECT gave two rows of one content at different
\* distances and the search returned the closer one alone.
C15_Witness ==
  \E p \in MainProcs, tie \in TieOrders :
    /\ SearchReturned(p)
    /\ Strategy(p) \in {"strong_match", "weak_match"}
    /\ Len(Results(p)) = 1
    /\ Len(Candidates(p, tie)) = 2
    /\ Candidates(p, tie)[1].content = Candidates(p, tie)[2].content
    /\ Candidates(p, tie)[1].distance < Candidates(p, tie)[2].distance
    /\ Results(p)[1].distance = Candidates(p, tie)[1].distance

\* C16: a search (under any strategy) and a search_keyword return at most
\* `limit` rows, for every limit from 0 on.
C16_AtMostLimitRows ==
  \A p \in MainProcs :
    LookupReturned(p) =>
      /\ frame[p].limit >= 0
      /\ Len(ReturnedRows(p)) <= frame[p].limit

\* C16 witness: a lookup has returned exactly `limit` rows from a store in
\* which more rows than that match.
C16_Witness ==
  \E p \in MainProcs :
    /\ LookupReturned(p)
    /\ frame[p].limit >= 1
    /\ Len(ReturnedRows(p)) = frame[p].limit
    /\ Len(KeywordRows(frame[p].query, Len(documents))) > frame[p].limit

\* A call of `op` has ended in process p, by returning or by raising.
Ended(p, op) == pc[p] = "returned" /\ ret[p].op = op

\* C17: a vector lookup that raises makes search return no_results with no
\* rows; a keyword lookup that raises during the fallback makes search return
\* weak_match with the vector rows; a keyword lookup that raises in a direct
\* search_keyword call makes it return the empty list.  In none of these cases
\* does the call raise.
C17_LookupFailuresCaught ==
  \A p \in MainProcs :
    /\ (Ended(p, "search") /\ frame[p].vector_failed) =>
         ret[p] = Returned("search", SearchResult(<<>>, "no_results"))
    /\ (Ended(p, "search") /\ frame[p].keyword_failed) =>
         /\ frame[p].vector_results # <<>>
         /\ ret[p] = Returned("search",
                      SearchResult(frame[p].vector_results, "weak_match"))
    /\ (Ended(p, "search_keyword") /\ frame[p].keyword_failed) =>
         ret[p] = Returned("search_keyword", PyList(<<>>))

\* C17 witness: the keyword lookup of a search raised although rows of the
\* store match the query, and the search returned the weak vector rows.
C17_Witness ==
  \E p \in MainProcs :
    /\ Ended(p, "search")
    /\ frame[p].keyword_failed
    /\ KeywordRows(frame[p].query, frame[p].limit) # <<>>
    /\ Strategy(p) = "weak_match"

\* A step in which process p's search ends by raising the embedding failure.
SearchRaisesEmbedding(p) ==
  /\ ret[p] # Raised("search", "embedding")
  /\ ret'[p] = Raised("search", "embedding")

\* An add_documents call that ran into an embedding failure has raised it,
\* and the tables are those of before the call.
EmbeddingFailureRollsBack ==
  \A p \in MainProcs :
    (AddReturned(p) /\ PrintedError(out[p], {"embedding"})) =>
      /\ ret[p] = Raised("add_documents", "embedding")
      /\ documents = pre[p].docs
      /\ vec_documents = pre[p].vecs
      /\ tx[p] = NoTx

\* C18: an embedding failure is raised to the caller.  In add_documents, at
\* whichever kept candidate it happens, none of the rows the call had inserted
\* stays: the tables are those of before the call.  In search it is raised in
\* a step that opens no connection, runs no lookup and leaves the tables alone.
C18_EmbeddingFailurePropagates ==
  /\ []EmbeddingFailureRollsBack
  /\ [][\A p \in MainProcs :
          SearchRaisesEmbedding(p) =>
            /\ open_conns' = open_conns
            /\ frame'[p] = NoFrame
            /\ documents' = documents
            /\ vec_documents' = vec_documents]_vars

\* C18 witness: the embedding failed at the third kept candidate of a batch.
C18_Witness ==
  \E p \in MainProcs :
    /\ AddReturned(p)
    /\ ret[p] = Raised("add_documents", "embedding")
    /\ inserted_count[p] = 2
    /\ Len(Kept(batch[p])) = 3

\* A step of a search or search_keyword call of process p.
LookupStep(p) ==
  \/ pc[p] = "search_fallback"
  \/ pc'[p] = "search_fallback"
  \/ /\ pc[p] = "idle"
     /\ pc'[p] = "returned"
     /\ ret'[p].op \in {"search", "search_keyword"}

\* C19: no step changes or removes a committed row: the documents table after
\* a step begins with the table of before it, row for row (id, source,
\* content, metadata), and every vector entry of before is still there; the
\* steps of search and search_keyword leave both tables as they are.
C19_CommittedRowsImmutable ==
  [][/\ Len(documents') >= Len(documents)
     /\ SubSeq(documents', 1, Len(documents)) = documents
     /\ vec_documents \subseteq vec_documents'
     /\ \A v \in vec_documents' \ vec_documents :
          \A k \in 1..Len(documents) : documents[k].rowid # v.rowid
     /\ \A p \in MainProcs :
          LookupStep(p) =>
            (documents' = documents /\ vec_documents' = vec_documents)]_vars

\* C19 witness: on rows committed by an earlier call, a later add_documents
\* call has failed after inserting a row, and the rows are as they were.
C19_Witness ==
  \E p \in MainProcs :
    /\ AddReturned(p)
    /\ ret[p].raised # "none"
    /\ inserted_count[p] >= 1
    /\ pre[p].docs # <<>>
    /\ documents = pre[p].docs

\* The text q occurs in the text s, character for character.
Contains(s, q) ==
  \E j \in 1..(Len(s) - Len(q) + 1) : SubSeq(s, j, j + Len(q) - 1) = q

\* C20: on a store filled by add_documents alone, a search with limit >= 1
\* whose lookups did not fail and whose query occurs in the content of a
\* stored document returns rows, with strategy strong_match or keyword.
C20_SubstringHitFound ==
  \A p \in MainProcs :
    (/\ SearchReturned(p)
     /\ frame[p].limit >= 1
     /\ ~frame[p].vector_failed
     /\ ~frame[p].keyword_failed
     /\ \E k \in 1..Len(documents) :
          Contains(documents[k].content, frame[p].query)) =>
      /\ Results(p) # <<>>
      /\ Strategy(p) \in {"strong_match", "keyword"}

\* The text s with its ASCII letters in lower case.
LowerText(s) == [k \in 1..Len(s) |-> Lower(s[k])]

\* The stored documents that pass the read filter and whose content holds the
\* query as a substring, case ignored.
SubstringHits(query) ==
  LET hit(d) == /\ ReadFilter(d)
                /\ Contains(LowerText(d.content), LowerText(query))
      rows == SelectSeq(documents, hit)
  IN [k \in 1..Len(rows) |->
        [source |-> rows[k].source, content |-> rows[k].content,
         metadata |-> LoadMetadata(rows[k].metadata)]]

\* C21: a search_keyword call whose lookup did not fail returns only rows of
\* stored documents that pass the read filter and hold the query as a
\* substring, case ignored; and when there are at most `limit` such documents
\* it returns all of them.
C21_KeywordIsSubstringMatch ==
  \A p \in MainProcs :
    (Ended(p, "search_keyword") /\ ret[p].raised = "none"
       /\ ~frame[p].keyword_failed) =>
      /\ \A k \in 1..Len(ReturnedRows(p)) :
           \E n \in 1..Len(SubstringHits(frame[p].query)) :
             SubstringHits(frame[p].query)[n] = ReturnedRows(p)[k]
      /\ Len(SubstringHits(frame[p].query)) <= frame[p].limit =>
           ReturnedRows(p) = SubstringHits(frame[p].query)

\* C22: embed_text returns exactly target_dim components, and they are the
\* first target_dim components of the raw embedding, in their order, all
\* scaled by one common factor.
C22_FirstComponentsScaled ==
  embed.pc = "returned" =>
    /\ Len(embed.result) = target_dim
    /\ \/ \A k \in 1..target_dim : embed.result[k] = embed.embedding[k] * Scale
       \/ \E factor \in 1..(MaxRaw * Scale * target_dim) :
            \A k \in 1..target_dim :
              embed.result[k] = (embed.embedding[k] * Scale * Scale) \div factor

\* A returned vector whose raw embedding's head and tail differ.
C22_Witness ==
  /\ embed.pc = "returned"
  /\ Len(embed.embedding) > target_dim
  /\ embed.embedding[1] # 0
  /\ embed.embedding[Len(embed.embedding)] # embed.embedding[1]
  /\ embed.result[1] # 0
RECURSIVE DocsWhere(_, _, _)
DocsWhere(channels, calls, outcome) ==
  IF channels = <<>> THEN <<>>
  ELSE (IF calls[Head(channels).id] = outcome
          THEN channel_docs(Head(channels)) ELSE <<>>)
       \o DocsWhere(Tail(channels), calls, outcome)

\* sync has returned: no archived channel was processed, every other channel
\* was processed once and, if that raised, once more, and the documents
\* returned are those of the channels that succeeded.
SyncSwept ==
  slack.pc = "returned" =>
    /\ \A k \in 1..Len(slack.channels) :
         IF slack.channels[k].is_archived
           THEN slack.calls[k] = <<>>
           ELSE slack.calls[k] \in {<<"ok">>, <<"raise", "ok">>, <<"raise", "raise">>}
    /\ slack.documents =
         DocsWhere(slack.channels, slack.calls, <<"ok">>)
           \o DocsWhere(slack.channels, slack.calls, <<"raise", "ok">>)

\* C24: SlackConnector.sync processes every non-archived channel once in the
\* first sweep, retries once each channel whose first attempt raised, never
\* processes an archived channel, and terminates returning exactly the
\* documents of the channels that succeeded in either sweep.
C24_DoubleSweep == []SyncSwept /\ <>(slack.pc = "returned")

\* A sync that returned after skipping an archived channel, recovering one
\* channel in the second sweep and giving up another.
C24_Witness ==
  /\ slack.pc = "returned"
  /\ \E a, b, c \in 1..Len(slack.channels) :
       /\ slack.channels[a].is_archived
       /\ slack.calls[b] = <<"raise", "ok">>
       /\ slack.calls[c] = <<"raise", "raise">>
RECURSIVE Flatten(_)
Flatten(data) ==
  IF data = <<>> THEN <<>> ELSE Head(data).messages \o Flatten(Tail(data))

\* The role of a message of an export, with human read as user, and its text.
RoleOf(format, m) ==
  IF format = "anthropic"
    THEN (IF m.sender = "human" THEN "user" ELSE m.sender)
    ELSE (IF m.message = PyNone THEN "none" ELSE m.message.role)
TextOf(format, m) ==
  IF format = "anthropic" THEN m.text
  ELSE IF m.message = PyNone THEN <<>> ELSE join_parts(m.message.parts)

\* The role and text of the messages with role user or assistant and a
\* non-empty text, in order.
RECURSIVE Importable(_, _)
Importable(format, messages) ==
  IF messages = <<>> THEN <<>>
  ELSE (IF /\ RoleOf(format, Head(messages)) \in {"user", "assistant"}
           /\ TextOf(format, Head(messages)) # <<>>
          THEN <<[role |-> RoleOf(format, Head(messages)),
                  text |-> TextOf(format, Head(messages))]>>
          ELSE <<>>)
       \o Importable(format, Tail(messages))

\* C26: the importers emit one Document per message with role user or
\* assistant (sender human or assistant) and non-empty text, in input order,
\* with the message's text as content and its role (human as user) as the
\* metadata role; other messages give no Document.
C26_OneDocumentPerMessage ==
  importer.pc = "returned" =>
    LET expected == Importable(importer.format, Flatten(importer.data))
    IN /\ Len(importer.documents) = Len(expected)
       /\ \A k \in 1..Len(expected) :
            /\ importer.documents[k].content = expected[k].text
            /\ importer.documents[k].metadata.role = expected[k].role

\* An OpenAI export with a kept message after a system message, and a
\* message made of several parts.
C26_Witness ==
  /\ importer.pc = "returned"
  /\ importer.format = "openai"
  /\ Len(importer.documents) = 2
  /\ Len(Flatten(importer.data)) = 4
  /\ importer.documents[2].content = <<"o", "k">>
  /\ \E k \in 1..4 : RoleOf("openai", Flatten(importer.data)[k]) = "system"
\* C27: every document add_documents stores passes the read filter of search
\* and search_keyword (content not NULL, longer than 10 characters, source
\* other than "Unknown").
C27_AdmittedIsReadable ==
  \A k \in 1..Len(documents) : ReadFilter(documents[k])
\* C28: when the store holds at least one vector row whose document passes
\* the read filter and the vector lookup does not fail, search(query, limit)
\* with limit >= 1 returns at least one row, whatever other rows the store
\* holds.
C28_EligibleRowIsFound ==
  \A p \in MainProcs :
    (/\ SearchReturned(p)
     /\ ~frame[p].vector_failed
     /\ frame[p].limit >= 1
     /\ EligibleVectorRows # {}) =>
      /\ Results(p) # <<>>
      /\ Strategy(p) # "no_results"
\* C29: search and search_keyword never raise a storage error to the caller:
\* a failure while the connection is acquired is handled like a lookup
\* failure and gives no rows.
C29_NoStorageErrorFromSearch ==
  \A p \in MainProcs :
    (Ended(p, "search") \/ Ended(p, "search_keyword")) =>
      ret[p].raised \notin StorageErrors
\* C30: the document count a sync worker reports on success, which
\* sync_provider forwards as documents_processed in its "complete" event,
\* is the number of documents add_documents stored for that sync.
C30_ReportedCountIsStored ==
  /\ (worker.pc \in {"returned", "done"} /\ worker.result.success) =>
       worker.result.documents = Len(documents)
  /\ (worker.pc = "done" /\ worker.result.success) =>
       worker.progress = <<"complete", Len(documents)>>
====
